---- MODULE Spec2Model ----
(***************************************************************************)
(* State-machine model of STOCO/train.py: main() start-up, the epoch and   *)
(* step loops of train(), the evaluation/checkpoint block at the end of    *)
(* each epoch, and the batch interleaving transform.                       *)
(*                                                                         *)
(* Every process of the fleet runs the same program; P[p] is the state of  *)
(* process p (its position in the code and its local objects).             *)
(***************************************************************************)
EXTENDS Integers, Sequences, FiniteSets, TLC

(***************************************************************************)
(* Bounds of the model.                                                    *)
(***************************************************************************)
MaxEvalStep == 2
MaxTotalSteps == 3
MaxDistSteps == 2
MaxSamples == 2
MaxBatch == 2
MaxAcc == 2
MaxP == 2
MaxMask == 1
MaxRestarts == 1
MaxRows == 6
MaxRowVal == 1
MaxB == 2
MaxMu == 2
MaxFleet == 3

VARIABLES
    args,      \* parsed arguments shared by the fleet (argparse namespace)
    fleet,     \* p -> [rank, local_rank, node] (RANK / --local_rank / host)
    loaders,   \* number of batches of one pass over each train loader
    P,         \* p -> state of process p
    files,     \* node -> files under args.out on that node
    effects,   \* side effects executed so far, by kind
    hist,      \* epoch -> state of the run at the head of that epoch
    restarts,  \* number of times the run was stopped and resumed
    il,        \* state of the batch-interleaving computation
    env        \* the values the data and the networks can produce in this run

vars == <<args, fleet, loaders, P, files, effects, hist, restarts, il, env>>

Procs == DOMAIN fleet

Max(a, b) == IF a >= b THEN a ELSE b

\* a quotient rounded down
CeilFloor(a, b) == a \div b

\* math.ceil(total_steps / eval_step)
Ceil(a, b) == (a + b - 1) \div b

(***************************************************************************)
(* Fleet shapes: a single process (local_rank = -1), one node with n       *)
(* processes (local_rank = rank), n nodes with one process each            *)
(* (local_rank = 0 on every node).                                         *)
(***************************************************************************)
SingleFleet == [p \in {1} |-> [rank |-> 0, local_rank |-> 0 - 1, node |-> 1]]

OneNodeFleet(n) == [p \in 1..n |-> [rank |-> p - 1, local_rank |-> p - 1, node |-> 1]]

MultiNodeFleet(n) == [p \in 1..n |-> [rank |-> p - 1, local_rank |-> 0, node |-> p]]

DistFleets == {OneNodeFleet(2), MultiNodeFleet(2)}

Nodes == {fleet[p].node : p \in Procs}

\* args.local_rank in [-1, 0]
IsWriter(p) == fleet[p].local_rank \in {0 - 1, 0}

\* args.local_rank != -1
Distributed(p) == fleet[p].local_rank # 0 - 1

\* len(DataLoader(dataset, sampler, batch_size, drop_last=True)): the sampler
\* hands each of the w processes ceil(n / w) samples, partial batches are dropped
LoaderLen(n, batch, w) == Ceil(n, w) \div batch

(***************************************************************************)
(* Objects built by main() and the locals of train().                      *)
(***************************************************************************)
MeterNames == {"losses", "losses_x", "losses_u", "mask_probs", "noise_rates",
               "mislabeled_nums", "noise_rate_estms", "mislabeled_num_estms"}

\* AverageMeter(): count = 0
AverageMeter == 0

\* AverageMeter.update(val, n): count += n
MeterUpdate(count, n) == count + n

\* AverageMeter.update(val, n): sum += val * n
MeterSum(sum, val, n) == sum + val * n

\* LambdaLR(optimizer, _lr_lambda, last_epoch=-1): the constructor performs the
\* initial step, which moves last_epoch from -1 to 0
LambdaLR(last_epoch) == last_epoch + 1

\* a scheduler stepped twice per training step
SchedulerStepTwice(last_epoch) == last_epoch + 2

\* scheduler.step(): last_epoch += 1
SchedulerStep(last_epoch) == last_epoch + 1

\* _lr_lambda(current_step) of get_cosine_schedule_with_warmup, kept symbolic:
\* <<"warmup", a, b>> is a / b and <<"cos", a, b>> is max(0, cos(pi * 7/16 * a / b))
LrLambda(current_step, warmup, epochs, eval_step) ==
    LET num_warmup_steps == warmup * eval_step
        num_training_steps == epochs * eval_step
    IN  IF current_step < num_warmup_steps
        THEN <<"warmup", current_step, Max(1, num_warmup_steps)>>
        ELSE <<"cos", current_step - num_warmup_steps,
               Max(1, num_training_steps - num_warmup_steps)>>

NoCalls == [backward |-> 0, optimizer_step |-> 0, scheduler_step |-> 0,
            ema_update |-> 0, zero_grad |-> 0, test |-> 0]

\* a process at the first line of main()
Launched ==
    [pc |-> "main", start_epoch |-> 0, epoch |-> 0, batch_idx |-> 0, steps |-> 0,
     labeled_iter |-> 0, unlabeled_iter |-> 0, batch_x |-> 0, batch_u |-> 0,
     model |-> 0, optimizer |-> 0, scheduler |-> 0, ema |-> 0,
     grads |-> "none", mode |-> "train", ema_mode |-> "train",
     mask_sum |-> 0, p_sum |-> 0, tensor_list |-> <<>>,
     best_acc |-> 0, test_acc |-> 0,
     meters |-> [m \in MeterNames |-> AverageMeter],
     sums |-> [m \in MeterNames |-> AverageMeter],
     test_model |-> "none",
     calls |-> NoCalls, taint |-> {}, barriers |-> <<>>]

NoFiles == [out_dir |-> FALSE, checkpoint |-> <<>>, model_best |-> <<>>]

NoEffects == [makedirs |-> {}, datasets |-> {}, models |-> {}, add_scalar |-> {},
              save_checkpoint |-> {}, copyfile |-> {}]

IlIdle == [pc |-> "off", x |-> <<>>, size |-> 1, y |-> <<>>, z |-> <<>>, B |-> 0, mu |-> 0,
           logits_x |-> <<>>, logits_u_w |-> <<>>, logits_u_s |-> <<>>]

\* the runs of one fleet shape: every argument and dataset size within the bounds
InitRun(fleets, steps, emas, samples, values) ==
    /\ fleet \in fleets
    /\ env = values
    /\ \E eval_step \in 1..MaxEvalStep, total_steps \in steps,
          use_ema \in emas, method \in {"depict", "fixmatch"} :
          args = [eval_step |-> eval_step, total_steps |-> total_steps,
                  epochs |-> Ceil(total_steps, eval_step), warmup |-> 0,
                  use_ema |-> use_ema, pseudo_label_method |-> method,
                  world_size |-> Cardinality(DOMAIN fleet), resume |-> ""]
    /\ \E nl \in samples, nu \in samples, batch_size \in 1..MaxBatch :
          loaders = [labeled |-> LoaderLen(nl, batch_size, Cardinality(DOMAIN fleet)),
                     unlabeled |-> LoaderLen(nu, batch_size, Cardinality(DOMAIN fleet))]
    /\ P = [p \in DOMAIN fleet |-> Launched]
    /\ files = [n \in {fleet[p].node : p \in DOMAIN fleet} |-> NoFiles]
    /\ effects = NoEffects
    /\ hist = [p \in DOMAIN fleet |-> <<>>]
    /\ restarts = 0
    /\ il = IlIdle

\* a single process: every test accuracy, empty and non-empty masks
Init == InitRun({SingleFleet}, 1..MaxTotalSteps, BOOLEAN, 0..MaxSamples,
                [accs |-> 0..MaxAcc, masks |-> {0, MaxMask}, pvals |-> {MaxP}])

\* a distributed fleet: the processes differ in their pseudo-label batches
InitDist == InitRun(DistFleets, 1..MaxDistSteps, {TRUE}, {MaxSamples},
                    [accs |-> {1}, masks |-> {1}, pvals |-> 1..MaxP])

\* a single process with loaders that hold batches, to be stopped and resumed
InitResume == InitRun({SingleFleet}, 1..MaxTotalSteps, BOOLEAN, {MaxSamples},
                      [accs |-> 0..MaxAcc, masks |-> {MaxMask}, pvals |-> {MaxP}])

Set(p, r) == P' = [P EXCEPT ![p] = r]

(***************************************************************************)
(* main(), lines 255-318: the output directory and writer, the datasets    *)
(* and the models are each made between two conditional barrier calls: a   *)
(* process whose local_rank is neither -1 nor 0 calls the barrier before   *)
(* the work, a process whose local_rank is 0 calls it after the work.      *)
(* barriers is the sequence of barrier calls a process has made, each      *)
(* named by the section of main() it stands in.                            *)
(***************************************************************************)
\* args.local_rank == 0
LocalRankZero(p) == fleet[p].local_rank = 0

\* torch.distributed.barrier(): the n-th call of a process returns once every
\* process of the group has made its n-th call
BarrierPassed(p) == \A q \in Procs : Len(P[q].barriers) >= Len(P[p].barriers)

\* if args.local_rank not in [-1, 0]: torch.distributed.barrier()
BarrierBefore(p, from, to, section) ==
    /\ P[p].pc = from
    /\ LocalRankZero(p) => BarrierPassed(p)
    /\ Set(p, [P[p] EXCEPT !.pc = to,
                           !.barriers = IF IsWriter(p) THEN @ ELSE Append(@, section)])

\* a section whose local_rank 0 process calls no barrier after the work
BarrierAfterSkipped(p, from, to, section) ==
    /\ P[p].pc = from
    /\ ~IsWriter(p) => BarrierPassed(p)
    /\ Set(p, [P[p] EXCEPT !.pc = to])

\* the work of a section, then: if args.local_rank == 0: torch.distributed.barrier()
BarrierAfter(p, from, to, section) ==
    /\ P[p].pc = from
    /\ ~IsWriter(p) => BarrierPassed(p)
    /\ Set(p, [P[p] EXCEPT !.pc = to,
                           !.barriers = IF LocalRankZero(p) THEN Append(@, section) ELSE @])

\* lines 255-256
MainOutDirBarrier(p) ==
    /\ BarrierBefore(p, "main", "outdir", "outdir")
    /\ UNCHANGED <<args, fleet, loaders, files, effects, hist, restarts, il, env>>

\* lines 258-263
MainOutDir(p) ==
    /\ BarrierAfter(p, "outdir", "dataset_barrier", "outdir")
    /\ IF IsWriter(p)
       THEN /\ files' = [files EXCEPT ![fleet[p].node].out_dir = TRUE]
            /\ effects' = [effects EXCEPT !.makedirs = @ \cup {p}]
       ELSE UNCHANGED <<files, effects>>
    /\ UNCHANGED <<args, fleet, loaders, hist, restarts, il, env>>

\* lines 265-283
MainDatasetBarrier(p) ==
    /\ BarrierBefore(p, "dataset_barrier", "dataset", "dataset")
    /\ UNCHANGED <<args, fleet, loaders, files, effects, hist, restarts, il, env>>

\* lines 285-288
MainDataset(p) ==
    /\ BarrierAfter(p, "dataset", "model_barrier", "dataset")
    /\ effects' = [effects EXCEPT !.datasets = @ \cup {p}]
    /\ UNCHANGED <<args, fleet, loaders, files, hist, restarts, il, env>>

\* lines 290-313
MainModelBarrier(p) ==
    /\ BarrierBefore(p, "model_barrier", "model", "model")
    /\ UNCHANGED <<args, fleet, loaders, files, effects, hist, restarts, il, env>>

\* lines 315-318
MainModel(p) ==
    /\ BarrierAfter(p, "model", "build", "model")
    /\ effects' = [effects EXCEPT !.models = @ \cup {p}]
    /\ UNCHANGED <<args, fleet, loaders, files, hist, restarts, il, env>>

(***************************************************************************)
(* Which program variables depend on the values of targets_u_gt.  taint is *)
(* the set of such variables; an assignment makes its target depend on     *)
(* targets_u_gt exactly when one of the values it reads does.              *)
(***************************************************************************)
Assign(t, dst, srcs) == IF srcs \cap t # {} THEN t \cup {dst} ELSE t \ {dst}

\* an in-place update (+=, .update(), .step()) also reads the old value
Accumulate(t, dst, srcs) == Assign(t, dst, srcs \cup {dst})

\* the assignments of moves made one after the other, each on the set the
\* one before it left
RECURSIVE AssignAll(_, _)
AssignAll(t, moves) ==
    IF moves = <<>> THEN t
    ELSE LET after == {Assign(s, moves[1][1], moves[1][2]) : s \in {t}}
         IN  AssignAll(CHOOSE r \in after : TRUE, Tail(moves))

(***************************************************************************)
(* main(), lines 320-388: optimizer, scheduler, EMA shadows, and the load   *)
(* of the checkpoint when --resume is given, followed in a distributed run *)
(* by a barrier call of every process.                                     *)
(***************************************************************************)
\* the file args.resume names, as a sequence holding the record it stores
ResumeFile(p) ==
    IF args.resume = "model_best.pth.tar"
    THEN files[fleet[p].node].model_best
    ELSE files[fleet[p].node].checkpoint

\* a resume that leaves out scheduler.load_state_dict
LoadCheckpointNoScheduler(r, checkpoint) ==
    [r EXCEPT !.best_acc = checkpoint.best_acc,
              !.start_epoch = checkpoint.epoch,
              !.epoch = checkpoint.epoch,
              !.model = checkpoint.state_dict,
              !.ema = IF args.use_ema THEN checkpoint.ema_state_dict ELSE @,
              !.optimizer = checkpoint.optimizer,
              !.taint = @ \cup checkpoint.taint]

\* lines 374-383
LoadCheckpoint(r, checkpoint) ==
    [r EXCEPT !.best_acc = checkpoint.best_acc,
              !.start_epoch = checkpoint.epoch,
              !.epoch = checkpoint.epoch,
              !.model = checkpoint.state_dict,
              !.ema = IF args.use_ema THEN checkpoint.ema_state_dict ELSE @,
              !.optimizer = checkpoint.optimizer,
              !.scheduler = checkpoint.scheduler,
              !.taint = @ \cup checkpoint.taint]

MainBuild(p) ==
    /\ P[p].pc = "build"
    /\ LocalRankZero(p) => BarrierPassed(p)
    /\ LET built == [P[p] EXCEPT !.pc = "ready", !.model = 0, !.optimizer = 0,
                                 !.scheduler = LambdaLR(0 - 1), !.ema = 0,
                                 !.start_epoch = 0, !.epoch = 0,
                                 !.barriers = IF args.resume # "" /\ Distributed(p)
                                              THEN Append(@, "resume") ELSE @]
       IN  IF args.resume = ""
           THEN Set(p, built)
           ELSE /\ ResumeFile(p) # <<>>
                /\ Set(p, LoadCheckpoint(built, ResumeFile(p)[1]))
    /\ UNCHANGED <<args, fleet, loaders, files, effects, hist, restarts, il, env>>

(***************************************************************************)
(* main() lines 398-403 and train() lines 411-425: gradients zeroed, fresh *)
(* accumulators, one iterator over each train loader.                      *)
(***************************************************************************)
TrainInit(p) ==
    /\ P[p].pc = "ready"
    /\ (args.resume # "" /\ Distributed(p)) => BarrierPassed(p)
    /\ Set(p, [P[p] EXCEPT !.pc = "epoch", !.grads = "zero",
                           !.calls.zero_grad = @ + 1,
                           !.meters = [m \in MeterNames |-> AverageMeter],
                           !.sums = [m \in MeterNames |-> AverageMeter],
                           !.labeled_iter = 0, !.unlabeled_iter = 0])
    /\ UNCHANGED <<args, fleet, loaders, files, effects, hist, restarts, il, env>>

(***************************************************************************)
(* for epoch in range(args.start_epoch, args.epochs), lines 427-434        *)
(***************************************************************************)
EpochBegin(p) ==
    /\ P[p].pc = "epoch"
    /\ P[p].epoch < args.epochs
    /\ Set(p, [P[p] EXCEPT !.pc = "fetch", !.mode = "train", !.batch_idx = 0])
    /\ UNCHANGED <<args, fleet, loaders, files, effects, hist, restarts, il, env>>

\* the loop is over: lines 578-579
Finish(p) ==
    /\ P[p].pc = "epoch"
    /\ P[p].epoch >= args.epochs
    /\ Set(p, [P[p] EXCEPT !.pc = "done"])
    /\ UNCHANGED <<args, fleet, loaders, files, effects, hist, restarts, il, env>>

(***************************************************************************)
(* FETCH, lines 435-446.  An iterator that has yielded pos batches of a    *)
(* pass of len batches raises StopIteration on next() when pos = len.      *)
(***************************************************************************)
IterNext(pos, len) ==
    IF pos < len THEN [ok |-> TRUE, pos |-> pos + 1, batch |-> pos + 1]
    ELSE [ok |-> FALSE, pos |-> pos, batch |-> 0]

\* a fetch that does not re-create the exhausted iterator
NextNoRestart(pos, len) == IterNext(pos, len)

\* try: it.next()  except: it = iter(loader); it.next()
NextOrRestart(pos, len) ==
    IF IterNext(pos, len).ok THEN IterNext(pos, len) ELSE IterNext(0, len)

Fetch(p) ==
    /\ P[p].pc = "fetch"
    /\ LET x == NextOrRestart(P[p].labeled_iter, loaders.labeled)
           u == NextOrRestart(P[p].unlabeled_iter, loaders.unlabeled)
       IN  IF ~x.ok
           THEN Set(p, [P[p] EXCEPT !.pc = "crashed", !.labeled_iter = 0])
           ELSE IF ~u.ok
           THEN Set(p, [P[p] EXCEPT !.pc = "crashed", !.labeled_iter = x.pos,
                                    !.batch_x = x.batch, !.unlabeled_iter = 0])
           ELSE Set(p, [P[p] EXCEPT !.pc = "forward", !.steps = @ + 1,
                                    !.labeled_iter = x.pos, !.batch_x = x.batch,
                                    !.unlabeled_iter = u.pos, !.batch_u = u.batch,
                                    !.taint = @ \cup {"targets_u_gt"}])
    /\ UNCHANGED <<args, fleet, loaders, files, effects, hist, restarts, il, env>>

(***************************************************************************)
(* FORWARD, lines 448-472: logits of the interleaved batch, the pseudo     *)
(* labels of the weak branch and the confidence mask.  The values the      *)
(* network produces are inputs of the model: the batch pseudo_label_sum    *)
(* and the number of samples the mask keeps.                               *)
(***************************************************************************)
ForwardFlows ==
    <<  <<"logits", {"model", "inputs_x", "inputs_u_w", "inputs_u_s"}>>,
        <<"pseudo_label", {"logits", "model"}>>,
        <<"targets_u", {"pseudo_label"}>>,
        <<"mask", {"pseudo_label"}>>  >>

Forward(p) ==
    /\ P[p].pc = "forward"
    /\ \E v \in env.pvals, m \in env.masks :
          Set(p, [P[p] EXCEPT !.pc = "loss", !.p_sum = v, !.mask_sum = m,
                              !.taint = AssignAll(@, ForwardFlows)])
    /\ UNCHANGED <<args, fleet, loaders, files, effects, hist, restarts, il, env>>

(***************************************************************************)
(* Collectives.  A collective call of training step n returns on process p *)
(* once every process of the fleet has entered the same call: q has        *)
(* entered it when q is in step n past the phases before the call, or has  *)
(* finished step n.                                                        *)
(***************************************************************************)
Entered(q, p, before) ==
    \/ P[q].steps > P[p].steps
    \/ P[q].steps = P[p].steps /\ P[q].pc \notin before \cup {"crashed"}

\* line 480: [pseudo_label_sum.clone()] * world_size is a list of world_size
\* references to ONE tensor; entry i of the list is the cell it refers to
ReceiveList(world_size) == [i \in 1..world_size |-> 1]

\* torch.distributed.all_gather(tensor_list, tensor): entry i receives the tensor
\* of rank i - 1.  Entries that are the same cell are written several times, in an
\* order the call does not define: the cell keeps one of the tensors written to it
AllGather(refs, data) ==
    LET cells == {refs[i] : i \in DOMAIN refs}
    IN  {h \in [cells -> {data[i] : i \in DOMAIN data}] :
            \A c \in cells : \E i \in DOMAIN refs : refs[i] = c /\ h[c] = data[i]}

\* the tensor every rank contributes, by rank + 1
Contributions == [i \in 1..args.world_size |->
                    P[CHOOSE q \in Procs : fleet[q].rank = i - 1].p_sum]

\* torch.cat(tensor_list, dim=0), one batch per list entry
Cat(refs, h) == [i \in DOMAIN refs |-> h[refs[i]]]

(***************************************************************************)
(* LOSS, lines 474-493                                                     *)
(***************************************************************************)
\* an unsupervised loss computed against the ground-truth labels
LuSourcesWithGt(method) == {"logits", "targets_u_gt", "mask"}

LuSources(method) ==
    IF method = "depict"
    THEN {"pseudo_label", "tensor_list", "logits", "mask"}
    ELSE {"logits", "targets_u", "mask"}

LossFlows(p) ==
    <<  <<"Lx", {"logits", "targets_x"}>>,
        <<"tensor_list", {"pseudo_label"}>>,
        <<"Lu", LuSources(args.pseudo_label_method)>>,
        <<"loss", {"Lx", "Lu"}>>  >>

Loss(p) ==
    /\ P[p].pc = "loss"
    /\ IF args.pseudo_label_method = "depict"
       THEN IF Distributed(p)
            THEN /\ \A q \in Procs : Entered(q, p, {"forward"})
                 /\ \E h \in AllGather(ReceiveList(args.world_size), Contributions) :
                       Set(p, [P[p] EXCEPT !.pc = "backward",
                                  !.tensor_list = Cat(ReceiveList(args.world_size), h),
                                  !.taint = AssignAll(@, LossFlows(p))])
            ELSE Set(p, [P[p] EXCEPT !.pc = "backward", !.tensor_list = <<P[p].p_sum>>,
                                     !.taint = AssignAll(@, LossFlows(p))])
       ELSE Set(p, [P[p] EXCEPT !.pc = "backward", !.taint = AssignAll(@, LossFlows(p))])
    /\ UNCHANGED <<args, fleet, loaders, files, effects, hist, restarts, il, env>>

(***************************************************************************)
(* BACKWARD, lines 494-498.  Under DistributedDataParallel the backward    *)
(* pass all-reduces the gradients, a collective of the whole fleet.        *)
(***************************************************************************)
Backward(p) ==
    /\ P[p].pc = "backward"
    /\ Distributed(p) => \A q \in Procs : Entered(q, p, {"forward", "loss"})
    /\ Set(p, [P[p] EXCEPT !.pc = "meters", !.grads = "set", !.calls.backward = @ + 1,
                           !.taint = Assign(@, "grads", {"loss"})])
    /\ UNCHANGED <<args, fleet, loaders, files, effects, hist, restarts, il, env>>

\* the mask-rate accumulator updated together with the loss accumulators
LossMetersAndMask(p) ==
    /\ P[p].pc = "meters"
    /\ Set(p, [P[p] EXCEPT !.pc = "optimizer",
                  !.meters.losses = MeterUpdate(@, 1),
                  !.meters.losses_x = MeterUpdate(@, 1),
                  !.meters.losses_u = MeterUpdate(@, 1),
                  !.meters.mask_probs = MeterUpdate(@, 1)])
    /\ UNCHANGED <<args, fleet, loaders, files, effects, hist, restarts, il, env>>

\* lines 500-502; the value of every loss is taken as the unit
LossMeters(p) ==
    /\ P[p].pc = "meters"
    /\ Set(p, [P[p] EXCEPT !.pc = "optimizer",
                  !.meters.losses = MeterUpdate(@, 1),
                  !.meters.losses_x = MeterUpdate(@, 1),
                  !.meters.losses_u = MeterUpdate(@, 1),
                  !.sums.losses = MeterSum(@, 1, 1),
                  !.sums.losses_x = MeterSum(@, 1, 1),
                  !.sums.losses_u = MeterSum(@, 1, 1),
                  !.taint = AssignAll(@, << <<"losses", {"losses", "loss"}>>,
                                            <<"losses_x", {"losses_x", "Lx"}>>,
                                            <<"losses_u", {"losses_u", "Lu"}>> >>)])
    /\ UNCHANGED <<args, fleet, loaders, files, effects, hist, restarts, il, env>>

(***************************************************************************)
(* OPTIMIZE, lines 503-504; EMA-UPDATE, lines 505-507; lines 508-509.      *)
(* model, optimizer and ema count the updates applied to each object.      *)
(***************************************************************************)
OptimizerStep(p) ==
    /\ P[p].pc = "optimizer"
    /\ Set(p, [P[p] EXCEPT !.pc = "scheduler", !.model = @ + 1, !.optimizer = @ + 1,
                  !.calls.optimizer_step = @ + 1,
                  !.taint = AssignAll(@, << <<"optimizer", {"optimizer", "grads"}>>,
                                            <<"model", {"model", "optimizer", "grads"}>> >>)])
    /\ UNCHANGED <<args, fleet, loaders, files, effects, hist, restarts, il, env>>

SchedulerStepCall(p) ==
    /\ P[p].pc = "scheduler"
    /\ Set(p, [P[p] EXCEPT !.pc = "ema", !.scheduler = SchedulerStep(@),
                           !.calls.scheduler_step = @ + 1])
    /\ UNCHANGED <<args, fleet, loaders, files, effects, hist, restarts, il, env>>

\* shadow models updated whether or not --use-ema is given
EmaUpdateAlways(p) ==
    /\ P[p].pc = "ema"
    /\ Set(p, [P[p] EXCEPT !.pc = "zero_grad", !.ema = @ + 1,
                           !.calls.ema_update = @ + 1,
                           !.taint = Accumulate(@, "ema", {"model"})])
    /\ UNCHANGED <<args, fleet, loaders, files, effects, hist, restarts, il, env>>

EmaUpdate(p) ==
    /\ P[p].pc = "ema"
    /\ IF args.use_ema
       THEN Set(p, [P[p] EXCEPT !.pc = "zero_grad", !.ema = @ + 1,
                                !.calls.ema_update = @ + 1,
                                !.taint = Accumulate(@, "ema", {"model"})])
       ELSE Set(p, [P[p] EXCEPT !.pc = "zero_grad"])
    /\ UNCHANGED <<args, fleet, loaders, files, effects, hist, restarts, il, env>>

ZeroGrad(p) ==
    /\ P[p].pc = "zero_grad"
    /\ Set(p, [P[p] EXCEPT !.pc = "metrics", !.grads = "zero", !.calls.zero_grad = @ + 1,
                           !.taint = Assign(@, "grads", {})])
    /\ UNCHANGED <<args, fleet, loaders, files, effects, hist, restarts, il, env>>

(***************************************************************************)
(* METRICS, lines 511-518, and the end of the loop body: the locals of the *)
(* step are dead once the body has run.                                    *)
(***************************************************************************)
\* diagnostics recorded for every batch, an empty mask included
MaskedAlways(mask_sum) == TRUE

\* line 514: if mask.sum() != 0
Masked(mask_sum) == mask_sum # 0

MaskedFlows ==
    <<  <<"noise_rates", {"noise_rates", "targets_u", "targets_u_gt", "mask"}>>,
        <<"mislabeled_nums", {"mislabeled_nums", "targets_u", "targets_u_gt", "mask"}>>,
        <<"noise_rate_estms", {"noise_rate_estms", "logits", "targets_x", "mask"}>>,
        <<"mislabeled_num_estms", {"mislabeled_num_estms", "logits", "targets_x", "mask"}>>  >>

MetricsFlows(mask_sum) ==
    << <<"mask_probs", {"mask_probs", "mask"}>> >> \o
    (IF Masked(mask_sum) THEN MaskedFlows ELSE <<>>)

\* an evaluation block indented into the step loop
StepLoopOverAlways(batch_idx) == TRUE

\* the for loop over range(args.eval_step) goes on while batch_idx < eval_step
StepLoopOver(batch_idx) == batch_idx >= args.eval_step

Metrics(p) ==
    /\ P[p].pc = "metrics"
    /\ LET r == P[p]
           n == r.mask_sum
           masked == Masked(n)
       IN  Set(p, [r EXCEPT
              !.pc = IF StepLoopOver(r.batch_idx + 1) THEN "eval" ELSE "fetch",
              !.batch_idx = @ + 1,
              !.meters.mask_probs = MeterUpdate(@, 1),
              !.meters.noise_rates = IF masked THEN MeterUpdate(@, n) ELSE @,
              !.meters.mislabeled_nums = IF masked THEN MeterUpdate(@, 1) ELSE @,
              !.meters.noise_rate_estms = IF masked THEN MeterUpdate(@, 1) ELSE @,
              !.meters.mislabeled_num_estms = IF masked THEN MeterUpdate(@, 1) ELSE @,
              !.sums.mask_probs = MeterSum(@, n, 1),
              !.sums.noise_rates = IF masked THEN MeterSum(@, 1, n) ELSE @,
              !.sums.mislabeled_nums = IF masked THEN MeterSum(@, n, 1) ELSE @,
              !.sums.noise_rate_estms = IF masked THEN MeterSum(@, 1, 1) ELSE @,
              !.sums.mislabeled_num_estms = IF masked THEN MeterSum(@, n, 1) ELSE @,
              !.taint = AssignAll(@, MetricsFlows(n)),
              !.batch_x = 0, !.batch_u = 0, !.p_sum = 0, !.mask_sum = 0,
              !.tensor_list = <<>>])
    /\ UNCHANGED <<args, fleet, loaders, files, effects, hist, restarts, il, env>>

(***************************************************************************)
(* End of an epoch, lines 537-576.  Only a process whose local_rank is -1  *)
(* or 0 evaluates, reports and saves; the others go on to the next epoch.  *)
(***************************************************************************)
\* what the run carries from one epoch to the next
RunState(r) ==
    [epoch |-> r.epoch, scheduler |-> r.scheduler, best_acc |-> r.best_acc,
     model |-> r.model, ema |-> r.ema, optimizer |-> r.optimizer,
     lr_lambda |-> LrLambda(r.scheduler, args.warmup, args.epochs, args.eval_step)]

Record(h, e, st) == [k \in DOMAIN h \cup {e} |-> IF k = e THEN st ELSE h[k]]

EpochEval(p) ==
    /\ P[p].pc = "eval"
    /\ IF IsWriter(p)
       THEN /\ Set(p, [P[p] EXCEPT !.pc = "test",
                          !.test_model = IF args.use_ema THEN "ema" ELSE "model",
                          !.mode = IF args.use_ema THEN @ ELSE "eval",
                          !.ema_mode = IF args.use_ema THEN "eval" ELSE @])
            /\ UNCHANGED hist
       ELSE LET r == [P[p] EXCEPT !.pc = "epoch", !.epoch = @ + 1,
                                  !.test_model = IF args.use_ema THEN "ema" ELSE "model"]
            IN  /\ Set(p, r)
                /\ hist' = [hist EXCEPT ![p] = Record(@, r.epoch, RunState(r))]
    /\ UNCHANGED <<args, fleet, loaders, files, effects, restarts, il, env>>

\* a comparison that also counts a tie as a new best
IsBestOrEqual(test_acc, best_acc) == test_acc >= best_acc

\* line 558
IsBest(test_acc, best_acc) == test_acc > best_acc

\* line 559
NewBest(test_acc, best_acc) == Max(test_acc, best_acc)

ReportFlows ==
    <<  <<"test_acc", {IF args.use_ema THEN "ema" ELSE "model"}>>,
        <<"train/1.train_loss", {"losses"}>>,
        <<"train/2.train_loss_x", {"losses_x"}>>,
        <<"train/3.train_loss_u", {"losses_u"}>>,
        <<"train/4.mask", {"mask_probs"}>>,
        <<"train/5.noise_rate", {"noise_rates"}>>,
        <<"train/6.mislabeled_num", {"mislabeled_nums"}>>,
        <<"train/7.noise_rate_estm", {"noise_rate_estms"}>>,
        <<"train/8.mislabeled_num_estm", {"mislabeled_num_estms"}>>,
        <<"test/1.test_acc", {"test_acc"}>>,
        <<"best_acc", {"best_acc", "test_acc"}>>,
        <<"checkpoint", {"model", "ema", "test_acc", "best_acc", "optimizer"}>>  >>

\* the record of lines 561-571
CheckpointState(r, test_acc, best) ==
    [epoch |-> r.epoch + 1,
     state_dict |-> r.model,
     ema_state_dict |-> IF args.use_ema THEN r.ema ELSE 0,
     acc |-> test_acc,
     best_acc |-> best,
     optimizer |-> r.optimizer,
     scheduler |-> r.scheduler,
     taint |-> IF "checkpoint" \in AssignAll(r.taint, ReportFlows)
               THEN {"checkpoint"} ELSE {}]

\* save_checkpoint(state, is_best, checkpoint), lines 31-36
SaveCheckpoint(dir, state, is_best) ==
    [dir EXCEPT !.checkpoint = <<state>>,
                !.model_best = IF is_best THEN <<state>> ELSE @]

TestReport(p) ==
    /\ P[p].pc = "test"
    /\ \E test_acc \in env.accs :
          LET r == P[p]
              is_best == IsBest(test_acc, r.best_acc)
              best == NewBest(test_acc, r.best_acc)
              state == CheckpointState(r, test_acc, best)
              next == [r EXCEPT !.pc = "epoch", !.epoch = @ + 1, !.test_acc = test_acc,
                                !.best_acc = best, !.calls.test = @ + 1,
                                !.taint = AssignAll(@, ReportFlows)]
          IN  /\ Set(p, next)
              /\ files' = [files EXCEPT ![fleet[p].node] = SaveCheckpoint(@, state, is_best)]
              /\ effects' = [effects EXCEPT
                    !.add_scalar = @ \cup {<<p, r.epoch>>},
                    !.save_checkpoint = @ \cup {<<p, r.epoch>>},
                    !.copyfile = IF is_best THEN @ \cup {<<p, r.epoch>>} ELSE @]
              /\ hist' = [hist EXCEPT ![p] = Record(@, next.epoch, RunState(next))]
    /\ UNCHANGED <<args, fleet, loaders, restarts, il, env>>

(***************************************************************************)
(* The run is stopped and launched again with --resume naming one of the   *)
(* two checkpoint files; the files stay.                                   *)
(***************************************************************************)
StopAndResume ==
    /\ restarts < MaxRestarts
    /\ \E name \in {"checkpoint.pth.tar", "model_best.pth.tar"} :
          /\ \A n \in Nodes :
                IF name = "model_best.pth.tar" THEN files[n].model_best # <<>>
                ELSE files[n].checkpoint # <<>>
          /\ args' = [args EXCEPT !.resume = name]
    /\ P' = [p \in Procs |-> Launched]
    /\ effects' = NoEffects
    /\ restarts' = restarts + 1
    /\ UNCHANGED <<fleet, loaders, files, hist, il, env>>

Next ==
    \/ \E p \in Procs : MainOutDirBarrier(p)
    \/ \E p \in Procs : MainOutDir(p)
    \/ \E p \in Procs : MainDatasetBarrier(p)
    \/ \E p \in Procs : MainDataset(p)
    \/ \E p \in Procs : MainModelBarrier(p)
    \/ \E p \in Procs : MainModel(p)
    \/ \E p \in Procs : MainBuild(p)
    \/ \E p \in Procs : TrainInit(p)
    \/ \E p \in Procs : EpochBegin(p)
    \/ \E p \in Procs : Finish(p)
    \/ \E p \in Procs : Fetch(p)
    \/ \E p \in Procs : Forward(p)
    \/ \E p \in Procs : Loss(p)
    \/ \E p \in Procs : Backward(p)
    \/ \E p \in Procs : LossMeters(p)
    \/ \E p \in Procs : OptimizerStep(p)
    \/ \E p \in Procs : SchedulerStepCall(p)
    \/ \E p \in Procs : EmaUpdate(p)
    \/ \E p \in Procs : ZeroGrad(p)
    \/ \E p \in Procs : Metrics(p)
    \/ \E p \in Procs : EpochEval(p)
    \/ \E p \in Procs : TestReport(p)

\* a single process, started without --resume
Spec == Init /\ [][Next]_vars

\* a distributed fleet, started without --resume
SpecDist == InitDist /\ [][Next]_vars

NextResume == Next \/ StopAndResume

\* a single process that may be stopped and resumed
SpecResume == InitResume /\ [][NextResume]_vars

\* a single process, loaders of any length, one accuracy and non-empty masks
InitLive == InitRun({SingleFleet}, 1..MaxTotalSteps, BOOLEAN, 0..MaxSamples,
                    [accs |-> {1}, masks |-> {MaxMask}, pvals |-> {MaxP}])

\* the process is never suspended for ever: it runs its next statement in the
\* end; when it is stopped and resumed is up to the user
SpecLive == InitLive /\ [][NextResume]_vars /\ WF_vars(Next)

(***************************************************************************)
(* Start-up of a distributed fleet, from the first line of main() to the   *)
(* entry of the epoch loop, without --resume or with --resume naming a     *)
(* checkpoint an earlier run has left on every node.                       *)
(***************************************************************************)
\* the record an earlier run wrote at the end of its first epoch
EarlierCheckpoint ==
    CheckpointState([Launched EXCEPT !.model = args.eval_step,
                                     !.optimizer = args.eval_step,
                                     !.scheduler = args.eval_step,
                                     !.ema = IF args.use_ema THEN args.eval_step ELSE 0],
                    1, 1)

InitStartup ==
    /\ fleet \in {OneNodeFleet(n) : n \in 2..MaxFleet} \cup {MultiNodeFleet(2)}
    /\ env = [accs |-> {1}, masks |-> {MaxMask}, pvals |-> {MaxP}]
    /\ \E eval_step \in 1..MaxEvalStep, use_ema \in BOOLEAN,
          resume \in {"", "checkpoint.pth.tar"} :
          args = [eval_step |-> eval_step, total_steps |-> MaxTotalSteps,
                  epochs |-> Ceil(MaxTotalSteps, eval_step), warmup |-> 0,
                  use_ema |-> use_ema, pseudo_label_method |-> "depict",
                  world_size |-> Cardinality(DOMAIN fleet), resume |-> resume]
    /\ loaders = [labeled |-> LoaderLen(MaxSamples * MaxFleet, 1, Cardinality(DOMAIN fleet)),
                  unlabeled |-> LoaderLen(MaxSamples * MaxFleet, 1, Cardinality(DOMAIN fleet))]
    /\ P = [p \in DOMAIN fleet |-> Launched]
    /\ files = [n \in {fleet[p].node : p \in DOMAIN fleet} |->
                  IF args.resume = "" THEN NoFiles
                  ELSE [NoFiles EXCEPT !.out_dir = TRUE,
                                       !.checkpoint = <<EarlierCheckpoint>>]]
    /\ effects = NoEffects
    /\ hist = [p \in DOMAIN fleet |-> <<>>]
    /\ restarts = 0
    /\ il = IlIdle

NextStartup ==
    \/ \E p \in Procs : MainOutDirBarrier(p)
    \/ \E p \in Procs : MainOutDir(p)
    \/ \E p \in Procs : MainDatasetBarrier(p)
    \/ \E p \in Procs : MainDataset(p)
    \/ \E p \in Procs : MainModelBarrier(p)
    \/ \E p \in Procs : MainModel(p)
    \/ \E p \in Procs : MainBuild(p)
    \/ \E p \in Procs : TrainInit(p)

\* no process is suspended for ever while it has a statement to run
SpecStartup == InitStartup /\ [][NextStartup]_vars /\ WF_vars(NextStartup)

(***************************************************************************)
(* The batch interleaving transform, lines 92-99, on a batch given as the  *)
(* sequence of its rows, and its use by the forward pass, lines 449-464.   *)
(***************************************************************************)
\* x.reshape([rows, cols]): row-major
Reshape(x, rows, cols) == [i \in 1..rows |-> [j \in 1..cols |-> x[(i - 1) * cols + j]]]

\* m.transpose(0, 1)
Transpose(m, rows, cols) == [j \in 1..cols |-> [i \in 1..rows |-> m[i][j]]]

\* m.reshape([-1]): row-major
Flatten(m, rows, cols) ==
    [k \in 1..(rows * cols) |-> m[((k - 1) \div cols) + 1][((k - 1) % cols) + 1]]

\* x.reshape([-1, size]).transpose(0, 1).reshape([-1])
interleave(x, size) ==
    LET n == Len(x) \div size
    IN  Flatten(Transpose(Reshape(x, n, size), n, size), size, n)

\* an inverse written with the reshape of interleave
de_interleave_same_reshape(x, size) ==
    LET n == Len(x) \div size
    IN  Flatten(Transpose(Reshape(x, n, size), n, size), size, n)

\* x.reshape([size, -1]).transpose(0, 1).reshape([-1])
de_interleave(x, size) ==
    LET n == Len(x) \div size
    IN  Flatten(Transpose(Reshape(x, size, n), size, n), n, size)

\* model['F'](model['G'](inputs)): one output row per input row, in the same order
Network(inputs) == [i \in DOMAIN inputs |-> <<"logits", inputs[i]>>]

\* t.chunk(2): the first ceil(n / 2) rows and the rest
Chunk2(t) ==
    <<SubSeq(t, 1, Ceil(Len(t), 2)), SubSeq(t, Ceil(Len(t), 2) + 1, Len(t))>>

\* torch.cat((inputs_x, inputs_u_w, inputs_u_s)) of a labeled batch of B rows and
\* an unlabeled batch of mu * B pairs
CatInputs(B, mu) ==
    [i \in 1..B |-> <<"inputs_x", i>>] \o
    [i \in 1..(mu * B) |-> <<"inputs_u_w", i>>] \o
    [i \in 1..(mu * B) |-> <<"inputs_u_s", i>>]

Divisors(n) == {k \in 1..n : n % k = 0}

\* the run part of a state of the interleaving computation: nothing is running
NoRun ==
    /\ fleet = SingleFleet
    /\ args = [eval_step |-> 1, total_steps |-> 1, epochs |-> 1, warmup |-> 0,
               use_ema |-> TRUE, pseudo_label_method |-> "depict",
               world_size |-> 1, resume |-> ""]
    /\ loaders = [labeled |-> 0, unlabeled |-> 0]
    /\ env = [accs |-> {}, masks |-> {}, pvals |-> {}]
    /\ P = [p \in {1} |-> [Launched EXCEPT !.pc = "off"]]
    /\ files = [n \in {1} |-> NoFiles]
    /\ effects = NoEffects
    /\ hist = [p \in {1} |-> <<>>]
    /\ restarts = 0

\* any batch of at most MaxRows rows with a group size dividing the row count, or
\* the concatenated batch of a training step with group size 2 * mu + 1
InitInterleave ==
    /\ NoRun
    /\ \/ \E n \in 1..MaxRows : \E size \in Divisors(n) :
            \E x \in [1..n -> {<<"row", v>> : v \in 0..MaxRowVal}] :
               il = [IlIdle EXCEPT !.pc = "cat", !.x = x, !.size = size]
       \/ \E B \in 1..MaxB, mu \in 1..MaxMu :
             il = [IlIdle EXCEPT !.pc = "cat", !.x = CatInputs(B, mu),
                                 !.size = 2 * mu + 1, !.B = B, !.mu = mu]

\* lines 450-451
Interleave ==
    /\ il.pc = "cat"
    /\ il' = [il EXCEPT !.pc = "inputs", !.y = interleave(il.x, il.size)]
    /\ UNCHANGED <<args, fleet, loaders, P, files, effects, hist, restarts, env>>

\* lines 453-454
ForwardPass ==
    /\ il.pc = "inputs"
    /\ il' = [il EXCEPT !.pc = "logits", !.y = Network(il.y)]
    /\ UNCHANGED <<args, fleet, loaders, P, files, effects, hist, restarts, env>>

\* line 455
DeInterleave ==
    /\ il.pc = "logits"
    /\ il' = [il EXCEPT !.pc = "split", !.z = de_interleave(il.y, il.size)]
    /\ UNCHANGED <<args, fleet, loaders, P, files, effects, hist, restarts, env>>

\* lines 456-457
Split ==
    /\ il.pc = "split"
    /\ il' = [il EXCEPT !.pc = "done",
                        !.logits_x = SubSeq(il.z, 1, il.B),
                        !.logits_u_w = Chunk2(SubSeq(il.z, il.B + 1, Len(il.z)))[1],
                        !.logits_u_s = Chunk2(SubSeq(il.z, il.B + 1, Len(il.z)))[2]]
    /\ UNCHANGED <<args, fleet, loaders, P, files, effects, hist, restarts, env>>

NextInterleave == Interleave \/ ForwardPass \/ DeInterleave \/ Split

SpecInterleave == InitInterleave /\ [][NextInterleave]_vars

(***************************************************************************)
(* Properties                                                              *)
(***************************************************************************)
\* the positions inside a training step, after its FETCH
InStep == {"forward", "loss", "backward", "meters", "optimizer", "scheduler",
           "ema", "zero_grad", "metrics"}

LossMeterNames == {"losses", "losses_x", "losses_u"}

Updated(p, m) == P'[p].meters[m] # P[p].meters[m]

\* the optimizer step (the EMA update) of the step in progress has been made
OptDone(p) == P[p].calls.optimizer_step = P[p].steps

EmaDone(p) == args.use_ema => P[p].calls.ema_update = P[p].steps

\* a new step begins only when the METRICS phase of every earlier step is over
StepsInTurn(p) == P'[p].steps # P[p].steps => P[p].meters.mask_probs = P[p].steps

\* C1 as stated: in every training step no metric accumulator (losses, losses_x,
\* losses_u, mask_probs, noise_rates, mislabeled_nums, noise_rate_estms,
\* mislabeled_num_estms) is updated before the optimizer step and the EMA update
\* of the same step, and no phase of step n+1 begins before METRICS of step n ends.
C1_MetricsAfterOptimize ==
    [][\A p \in Procs :
          /\ \A m \in MeterNames : Updated(p, m) => OptDone(p) /\ EmaDone(p)
          /\ StepsInTurn(p)]_vars

\* C1 amended: the order of a step is FETCH, FORWARD, LOSS, BACKWARD, update of
\* losses / losses_x / losses_u, optimizer step, scheduler step, EMA update,
\* zero_grad, update of mask_probs and of the four diagnostic accumulators: the
\* three loss accumulators are updated after BACKWARD and before the optimizer
\* step of the same step, the other five only after the optimizer step, the
\* scheduler step, the EMA update and zero_grad, and no phase of step n+1 begins
\* before the METRICS phase of step n has finished.
C1_PhaseOrder ==
    [][\A p \in Procs :
          /\ \A m \in LossMeterNames :
                Updated(p, m) => /\ P[p].calls.backward = P[p].steps
                                 /\ P[p].calls.optimizer_step = P[p].steps - 1
          /\ \A m \in MeterNames \ LossMeterNames :
                Updated(p, m) => /\ OptDone(p) /\ EmaDone(p)
                                 /\ P[p].calls.scheduler_step = P[p].steps
                                 /\ P[p].grads = "zero"
          /\ P'[p].calls.backward # P[p].calls.backward =>
                /\ P[p].batch_x # 0 /\ P[p].batch_u # 0 /\ P[p].p_sum # 0
                /\ P[p].calls.backward = P[p].steps - 1
          /\ P'[p].calls.optimizer_step # P[p].calls.optimizer_step =>
                P[p].calls.backward = P[p].steps
          /\ P'[p].calls.scheduler_step # P[p].calls.scheduler_step => OptDone(p)
          /\ P'[p].calls.ema_update # P[p].calls.ema_update =>
                OptDone(p) /\ P[p].calls.scheduler_step = P[p].steps
          /\ StepsInTurn(p)]_vars

\* a second step has begun after a first one that updated every accumulator
C1_Witness ==
    /\ P[1].steps = 2 /\ P[1].pc = "forward"
    /\ \A m \in MeterNames : P[1].meters[m] > 0
    /\ P[1].calls.ema_update = 1

\* C2: the scheduler's step counter advances once per training step, after the
\* optimizer step of that step, and nothing else changes it: without resume it
\* equals the number of completed steps, and epoch * eval_step at the head of
\* every epoch.
C2_SchedulerCounter ==
    \A p \in Procs :
       LET r == P[p]
       IN  /\ r.scheduler = r.calls.scheduler_step
           /\ r.calls.optimizer_step - r.calls.scheduler_step \in {0, 1}
           /\ r.pc \in InStep => r.scheduler \in {r.steps - 1, r.steps}
           /\ r.pc \in {"metrics", "fetch", "eval", "test", "epoch", "done", "crashed"} =>
                 r.scheduler = r.steps
           /\ r.pc = "epoch" => r.scheduler = r.epoch * args.eval_step

C2_Witness ==
    P[1].pc = "epoch" /\ P[1].epoch = 2 /\ P[1].scheduler = 2 * args.eval_step

\* C3 as stated: for loaders of any length (any number of full batches per pass)
\* every FETCH yields a labeled and an unlabeled batch and exhaustion never
\* aborts the training loop.
C3_FetchAlwaysYields ==
    \A p \in Procs :
       /\ P[p].pc # "crashed"
       /\ P[p].pc \in InStep => P[p].batch_x # 0 /\ P[p].batch_u # 0

\* C3 amended: for loaders that each hold at least one full batch per pass, every
\* FETCH yields one labeled and one unlabeled batch; an exhausted iterator is
\* re-created at the start of its loader within the same step, each iterator on
\* its own, so step n reads batch ((n - 1) mod length) + 1 of each loader, and
\* exhaustion never aborts the loop.
C3_FetchRestarts ==
    (loaders.labeled >= 1 /\ loaders.unlabeled >= 1) =>
    \A p \in Procs :
       /\ P[p].pc # "crashed"
       /\ P[p].pc \in InStep =>
             /\ P[p].batch_x = ((P[p].steps - 1) % loaders.labeled) + 1
             /\ P[p].batch_u = ((P[p].steps - 1) % loaders.unlabeled) + 1

\* the labeled iterator was re-created in a step in which the unlabeled was not
C3_Witness ==
    /\ loaders.labeled = 1 /\ loaders.unlabeled = 2
    /\ P[1].pc = "forward" /\ P[1].steps = 2
    /\ P[1].batch_x = 1 /\ P[1].batch_u = 2

\* the number of entries of sequence s equal to v
Count(s, v) == Cardinality({i \in DOMAIN s : s[i] = v})

\* C4: in the depict path of a distributed run the gathered tensor holds the
\* p_sum batch of every process exactly once, the same on every process; in a
\* single process it is the local p_sum.
C4_GatherHoldsEveryBatch ==
    \A p \in Procs :
       (/\ args.pseudo_label_method = "depict"
        /\ P[p].pc = "backward"
        /\ \A q \in Procs : P[q].steps = P[p].steps /\ P[q].p_sum # 0)
       => IF Distributed(p)
          THEN /\ Len(P[p].tensor_list) = args.world_size
               /\ \A q \in Procs : Count(P[p].tensor_list, P[q].p_sum) =
                                   Count(Contributions, P[q].p_sum)
          ELSE P[p].tensor_list = <<P[p].p_sum>>

\* C5 as stated: no process is inside an evaluation pass while any process is
\* inside a training step.
C5_NoEvalDuringTraining ==
    \A p, q \in Procs : ~(P[p].pc = "test" /\ P[q].pc \in InStep)

\* C5 amended: within each process an evaluation pass never overlaps that
\* process's own training steps and no two of its training steps overlap: its
\* evaluation of epoch e starts after all its eval_step steps of epoch e have
\* finished and ends before any of its steps of epoch e+1 starts.  (In a
\* distributed run the other processes may be inside training steps meanwhile.)
C5_EvalBetweenOwnEpochs ==
    \A p \in Procs :
       LET r == P[p]
           e == r.epoch - r.start_epoch
       IN  /\ r.pc = "test" =>
                 /\ r.steps = (e + 1) * args.eval_step
                 /\ r.meters.mask_probs = r.steps
                 /\ r.calls.test = e
           /\ r.pc \in InStep =>
                 /\ r.meters.mask_probs = r.steps - 1
                 /\ r.steps = e * args.eval_step + r.batch_idx + 1
                 /\ r.batch_idx < args.eval_step
                 /\ IsWriter(p) => r.calls.test = e

\* one process evaluates epoch 0 while another is in a step of epoch 1
C5_Witness ==
    \E p, q \in Procs :
       /\ P[p].pc = "test" /\ P[p].epoch = 0
       /\ P[q].pc = "forward" /\ P[q].epoch = 1

\* C6: in a distributed run on one or several nodes at most one process of the
\* whole fleet creates the output directory and writer, and at most one writes
\* the scalars and the checkpoint of a given epoch.
C6_SingleWriter ==
    /\ Cardinality(effects.makedirs) <= 1
    /\ \A e \in 0..args.epochs :
          /\ Cardinality({p \in Procs : <<p, e>> \in effects.save_checkpoint}) <= 1
          /\ Cardinality({p \in Procs : <<p, e>> \in effects.add_scalar}) <= 1

\* C7: on the writing process every completed epoch e overwrites the rolling
\* checkpoint with a record of epoch e+1 and that epoch's test accuracy; the
\* model_best copy is written in epoch e exactly when that accuracy is strictly
\* greater than best_acc as it stood before; best_acc never decreases and becomes
\* the maximum of its old value and the accuracy, so every record has
\* best_acc >= acc and a model_best copy of this run has acc = best_acc = the
\* current best_acc.
C7_Checkpoints ==
    /\ [](\A p \in Procs :
            LET dir == files[fleet[p].node]
            IN  /\ P[p].calls.test >= 1 =>
                      /\ dir.checkpoint # <<>>
                      /\ dir.checkpoint[1].epoch = P[p].epoch
                      /\ dir.checkpoint[1].acc = P[p].test_acc
                      /\ dir.checkpoint[1].best_acc = P[p].best_acc
                      /\ dir.checkpoint[1].best_acc >= dir.checkpoint[1].acc
                /\ dir.model_best # <<>> =>
                      /\ dir.model_best[1].acc = P[p].best_acc
                      /\ dir.model_best[1].best_acc = P[p].best_acc
                      /\ <<p, dir.model_best[1].epoch - 1>> \in effects.copyfile)
    /\ [][\A p \in Procs :
            /\ P'[p].best_acc >= P[p].best_acc
            /\ P'[p].calls.test # P[p].calls.test =>
                  LET dir == files'[fleet[p].node]
                      copied == <<p, P[p].epoch>> \in effects'.copyfile
                  IN  /\ dir.checkpoint = <<[dir.checkpoint[1] EXCEPT
                                               !.epoch = P[p].epoch + 1,
                                               !.acc = P'[p].test_acc]>>
                      /\ P'[p].best_acc = Max(P[p].best_acc, P'[p].test_acc)
                      /\ copied <=> P'[p].test_acc > P[p].best_acc
                      /\ copied => dir.model_best = dir.checkpoint
                      /\ ~copied => dir.model_best = files[fleet[p].node].model_best
                      /\ <<p, P[p].epoch>> \notin effects.copyfile]_vars

\* an epoch whose accuracy ties the best so far: no copy is made for it
C7_Witness ==
    /\ P[1].calls.test = 2 /\ P[1].test_acc = 1 /\ P[1].best_acc = 1
    /\ files[1].model_best # <<>> /\ files[1].model_best[1].epoch = 1
    /\ files[1].checkpoint[1].epoch = 2

\* C8: a run stopped after the checkpoint of epoch e was written and resumed
\* from it is in the state an uninterrupted run has at the head of epoch e+1:
\* next epoch index e+1, scheduler counter (e+1) * eval_step and the same
\* learning-rate multiplier, the saved best_acc, model, EMA and optimizer
\* states; it then runs exactly (epochs - e - 1) * eval_step further steps.
C8_ResumeContinues ==
    \A p \in Procs :
       LET r == P[p]
       IN  args.resume # "" =>
              /\ (r.pc \in {"ready", "epoch"} /\ r.steps = 0) =>
                    /\ r.start_epoch \in DOMAIN hist[p]
                    /\ r.start_epoch >= 1
                    /\ RunState(r) = hist[p][r.start_epoch]
                    /\ r.scheduler = r.start_epoch * args.eval_step
              /\ r.pc = "done" =>
                    r.steps = (args.epochs - r.start_epoch) * args.eval_step

\* a resumed run about to start an epoch that is not the first
C8_Witness ==
    /\ args.resume = "model_best.pth.tar" /\ restarts = 1
    /\ P[1].pc = "epoch" /\ P[1].steps = 0
    /\ P[1].start_epoch = 1 /\ args.epochs = 3
    /\ files[1].checkpoint[1].epoch = 2

\* C9: de_interleave(interleave(x, k), k) = x for every k dividing the number
\* of rows; interleave moves row a*k + b to position b*(N/k) + a; so after the
\* forward pass the de-interleaved logits at [0, B), [B, B + mu*B) and
\* [B + mu*B, B + 2*mu*B) are those of the labeled, weak and strong inputs in
\* their original order.
C9_InterleaveRoundTrip ==
    LET n == Len(il.x)
        k == il.size
    IN  il.pc # "off" =>
           /\ de_interleave(interleave(il.x, k), k) = il.x
           /\ \A a \in 0..((n \div k) - 1), b \in 0..(k - 1) :
                 interleave(il.x, k)[b * (n \div k) + a + 1] = il.x[a * k + b + 1]
           /\ il.pc \in {"split", "done"} => il.z = Network(il.x)
           /\ (il.pc = "done" /\ il.B >= 1) =>
                 /\ il.logits_x = [i \in 1..il.B |-> <<"logits", <<"inputs_x", i>>>>]
                 /\ il.logits_u_w =
                       [i \in 1..(il.mu * il.B) |-> <<"logits", <<"inputs_u_w", i>>>>]
                 /\ il.logits_u_s =
                       [i \in 1..(il.mu * il.B) |-> <<"logits", <<"inputs_u_s", i>>>>]

\* a training batch whose rows the interleaving really moved
C9_Witness ==
    /\ il.pc = "done" /\ il.B = 2 /\ il.mu = 2
    /\ interleave(il.x, il.size) # il.x
    /\ Len(il.logits_u_s) = 4

\* what may depend on targets_u_gt: the two noise accumulators and their scalars
GtOnly == {"targets_u_gt", "noise_rates", "mislabeled_nums",
           "train/5.noise_rate", "train/6.mislabeled_num"}

\* C10: the values of targets_u_gt never influence training: pseudo labels,
\* mask, losses, gradients, model, optimizer, EMA, test accuracy, best_acc and
\* the checkpoint do not depend on them; only noise_rates, mislabeled_nums and
\* the scalars written from them do.
C10_GtOnlyDiagnostic ==
    /\ \A p \in Procs : P[p].taint \subseteq GtOnly
    /\ \A n \in Nodes :
          /\ files[n].checkpoint # <<>> => files[n].checkpoint[1].taint = {}
          /\ files[n].model_best # <<>> => files[n].model_best[1].taint = {}

\* the ground truth has reached the reported noise rate, and a checkpoint exists
C10_Witness ==
    /\ "train/5.noise_rate" \in P[1].taint
    /\ "train/6.mislabeled_num" \in P[1].taint
    /\ files[1].checkpoint # <<>>
    /\ P[1].model >= 2

DiagnosticNames == {"noise_rates", "mislabeled_nums", "noise_rate_estms",
                    "mislabeled_num_estms"}

\* the METRICS phase of a step of process p is taken
MetricsTaken(p) == P[p].pc = "metrics" /\ P'[p].pc # "metrics"

\* C11: in a training step whose mask sums to zero the four diagnostic
\* accumulators keep their sum and their count, while the step completes as any
\* other (optimizer step, scheduler step, EMA update, loss and mask-rate
\* accumulators updated); in a step whose mask keeps n >= 1 samples each of the
\* four is updated exactly once (noise_rates with weight n, the others with
\* weight 1); nothing else in the step loop changes them.
C11_EmptyMaskSkipsDiagnostics ==
    [][\A p \in Procs :
          /\ MetricsTaken(p) =>
                /\ OptDone(p) /\ EmaDone(p) /\ P[p].calls.scheduler_step = P[p].steps
                /\ \A m \in LossMeterNames : P[p].meters[m] = P[p].steps
                /\ P'[p].meters.mask_probs = P[p].steps
                /\ P[p].mask_sum = 0 =>
                      \A m \in DiagnosticNames :
                         /\ P'[p].meters[m] = P[p].meters[m]
                         /\ P'[p].sums[m] = P[p].sums[m]
                /\ P[p].mask_sum # 0 =>
                      /\ P'[p].meters.noise_rates =
                            P[p].meters.noise_rates + P[p].mask_sum
                      /\ \A m \in DiagnosticNames \ {"noise_rates"} :
                            P'[p].meters[m] = P[p].meters[m] + 1
                      /\ \A m \in DiagnosticNames : P'[p].sums[m] # P[p].sums[m]
          /\ (P[p].pc \in InStep \cup {"fetch"} /\ ~MetricsTaken(p)) =>
                \A m \in DiagnosticNames :
                   /\ P'[p].meters[m] = P[p].meters[m]
                   /\ P'[p].sums[m] = P[p].sums[m]]_vars

\* a step with an empty mask has followed a step with a non-empty one
C11_Witness ==
    /\ P[1].meters.mask_probs = 2 /\ P[1].calls.optimizer_step = 2
    /\ P[1].sums.mask_probs = MaxMask
    /\ P[1].meters.noise_rates = MaxMask
    /\ \A m \in DiagnosticNames \ {"noise_rates"} : P[1].meters[m] = 1
    /\ \A m \in DiagnosticNames : P[1].sums[m] > 0
    /\ P[1].calls.ema_update = 2

\* what holds of the epochs and steps of process p wherever it is: an epoch head
\* after (epoch - start_epoch) epochs of eval_step steps and one evaluation each,
\* the live models in training mode throughout a step, the evaluation on the
\* EMA pair when EMA is enabled and on the live pair otherwise
EpochCounts(p) ==
    LET r == P[p]
        e == r.epoch - r.start_epoch
    IN  /\ args.epochs = Ceil(args.total_steps, args.eval_step)
        /\ r.pc \in {"epoch", "done"} =>
              /\ r.steps = e * args.eval_step
              /\ r.calls.test = e
        /\ r.pc = "done" =>
              /\ r.epoch = Max(args.epochs, r.start_epoch)
              /\ r.start_epoch <= args.epochs =>
                    r.steps = (args.epochs - r.start_epoch) * args.eval_step
              /\ r.start_epoch = 0 =>
                    /\ r.steps = args.epochs * args.eval_step
                    /\ r.steps >= args.total_steps
                    /\ r.steps < args.total_steps + args.eval_step
        /\ r.pc \in InStep \cup {"fetch"} =>
              /\ r.mode = "train"
              /\ r.epoch < args.epochs
              /\ r.batch_idx < args.eval_step
        /\ r.pc = "test" =>
              /\ r.steps = (e + 1) * args.eval_step
              /\ r.calls.test = e
              /\ r.test_model = IF args.use_ema THEN "ema" ELSE "model"
              /\ IF args.use_ema THEN r.ema_mode = "eval" ELSE r.mode = "eval"

\* an epoch begins by setting the live models to training mode
EpochSetsTrain(p) ==
    (P[p].pc = "epoch" /\ P'[p].pc = "fetch") => P'[p].mode = "train"

\* C12 as stated: train() terminates after exactly (epochs - start_epoch) epochs
\* of eval_step training steps in training mode, each followed by one evaluation
\* on the EMA pair (the live pair without EMA), whatever the loaders hold.
C12_AlwaysTerminates ==
    /\ [](\A p \in Procs : EpochCounts(p))
    /\ [][\A p \in Procs : EpochSetsTrain(p)]_vars
    /\ []<>(\A p \in Procs : P[p].pc = "done")

\* C12 amended: when each train loader holds at least one full batch, train()
\* terminates after exactly (epochs - start_epoch) epochs, where epochs =
\* ceil(total_steps / eval_step): every epoch sets the live models to training
\* mode, runs exactly eval_step steps in that mode and is followed by exactly one
\* evaluation, on the EMA pair when EMA is enabled and on the live pair
\* otherwise; a run from scratch makes epochs * eval_step steps, at least
\* total_steps and fewer than total_steps + eval_step.  With a loader that holds
\* no full batch the counts still hold of what has run, but the first FETCH ends
\* train() and no epoch completes.
C12_TerminatesWithBatches ==
    /\ [](\A p \in Procs : EpochCounts(p))
    /\ [][\A p \in Procs : EpochSetsTrain(p)]_vars
    /\ []<>((loaders.labeled >= 1 /\ loaders.unlabeled >= 1) =>
               \A p \in Procs : P[p].pc = "done")
    /\ []((loaders.labeled = 0 \/ loaders.unlabeled = 0) =>
               \A p \in Procs : P[p].calls.test = 0)

\* a run of three steps in two epochs of two, then a resumed run of one epoch
C12_Witness ==
    /\ P[1].pc = "done" /\ restarts = 1 /\ P[1].start_epoch = 1
    /\ args.epochs = 2 /\ args.total_steps = 3 /\ P[1].steps = 2
    /\ P[1].calls.test = 1

\* C13: between every optimizer step and the forward pass of the next step the
\* shadow models are updated exactly once when EMA is enabled, and never when it
\* is disabled, and the gradients of the live models are zeroed after that; so
\* the gradients are zero at every FETCH and every forward pass, the first FETCH
\* of a run (resumed or not) and the first after an evaluation included.  Outside
\* the steps nothing updates the shadow models.
C13_EmaThenZeroGrad ==
    /\ [](\A p \in Procs :
            LET r == P[p]
            IN  /\ r.pc \in {"epoch", "fetch", "forward", "loss", "eval", "test", "done"} =>
                      /\ r.grads = "zero"
                      /\ r.calls.ema_update =
                            IF args.use_ema THEN r.calls.optimizer_step ELSE 0
                      /\ r.calls.zero_grad = r.calls.optimizer_step + 1
                /\ ~args.use_ema => r.calls.ema_update = 0
                /\ r.pc \notin InStep => r.calls.ema_update =
                      IF args.use_ema THEN r.calls.optimizer_step ELSE 0
                /\ r.calls.optimizer_step - r.calls.ema_update \in
                      IF args.use_ema THEN {0, 1} ELSE {r.calls.optimizer_step})
    /\ [][\A p \in Procs : (P[p].pc \in InStep /\ restarts' = restarts) =>
            /\ P'[p].calls.ema_update # P[p].calls.ema_update =>
                  /\ args.use_ema
                  /\ P'[p].calls.ema_update = P[p].calls.ema_update + 1
                  /\ P[p].calls.ema_update = P[p].calls.optimizer_step - 1
                  /\ P'[p].ema = P[p].ema + 1
                  /\ P[p].grads = "set"
            /\ P'[p].calls.zero_grad # P[p].calls.zero_grad =>
                  /\ OptDone(p) /\ EmaDone(p)
                  /\ P[p].calls.zero_grad = P[p].calls.optimizer_step
                  /\ P'[p].grads = "zero"
            /\ P'[p].calls.optimizer_step # P[p].calls.optimizer_step =>
                  /\ P[p].calls.zero_grad = P[p].calls.optimizer_step + 1
                  /\ args.use_ema =>
                        P[p].calls.ema_update = P[p].calls.optimizer_step]_vars

\* the first FETCH after an evaluation, in a run resumed with EMA enabled
C13_Witness ==
    /\ args.use_ema /\ restarts = 1 /\ P[1].start_epoch = 1
    /\ P[1].pc = "fetch" /\ P[1].calls.test = 1 /\ P[1].grads = "zero"
    /\ P[1].calls.ema_update = args.eval_step
    /\ P[1].calls.zero_grad = args.eval_step + 1

\* C14: the accumulators behind the train/* scalars are fresh for each epoch:
\* when the scalars of an epoch are written (and at every later epoch head) each
\* of losses, losses_x, losses_u and mask_probs has counted the eval_step steps
\* of that epoch only.
C14_FreshPerEpoch ==
    \A p \in Procs :
       P[p].pc = "test" =>
          \A m \in LossMeterNames \cup {"mask_probs"} : P[p].meters[m] = args.eval_step

\* the barrier calls of a start-up, in order
BarrierOrder ==
    <<"outdir", "dataset", "model">> \o
    (IF args.resume # "" THEN <<"resume">> ELSE <<>>)

IsPrefix(a, b) == Len(a) <= Len(b) /\ a = SubSeq(b, 1, Len(a))

\* process q made the thing only after the local_rank 0 process of its node had
LocalRankZeroFirst(made) ==
    \A q \in made :
       ~LocalRankZero(q) =>
          \E p \in made : LocalRankZero(p) /\ fleet[p].node = fleet[q].node

\* C15: in the start-up of a distributed fleet every process calls the barrier
\* the same number of times in the same order (around the output directory,
\* around the datasets, around the models, and once more after the load when
\* resuming), no process stays blocked in a barrier (every process reaches the
\* epoch loop), and a process with local_rank # 0 makes its datasets (its
\* models) only after the local_rank 0 process has made them.
C15_StartupBarriers ==
    /\ [](\A p \in Procs :
            /\ IsPrefix(P[p].barriers, BarrierOrder)
            /\ P[p].pc \in {"ready", "epoch"} => P[p].barriers = BarrierOrder)
    /\ [](LocalRankZeroFirst(effects.datasets) /\ LocalRankZeroFirst(effects.models))
    /\ <>[](\A p \in Procs : P[p].pc = "epoch")

\* the largest fleet has resumed and entered the epoch loop
C15_Witness ==
    /\ Cardinality(Procs) = MaxFleet /\ args.resume # ""
    /\ \A p \in Procs : P[p].pc = "epoch" /\ Len(P[p].barriers) = 4
                          /\ P[p].start_epoch = 1
    /\ effects.datasets = Procs /\ effects.models = Procs
    /\ effects.makedirs = {p \in Procs : LocalRankZero(p)}

====
